---- MODULE Spec2Model ----
(***************************************************************************)
(* The workspaces settings page of cosmic-settings                         *)
(* (src/cosmic-settings/src/pages/desktop/workspaces.rs): the Page struct, *)
(* its construction (Default for Page) and its message handler             *)
(* (Page::update), together with the two configuration namespaces the page *)
(* reads at construction and writes from update.                           *)
(***************************************************************************)
EXTENDS Naturals, Sequences, FiniteSets, TLC

\* Largest index a SetWorkspaceThumbnailPlacement message carries (usize).
MaxIndex == 1

---------------------------------------------------------------------------
\* The enums of cosmic_comp_config::workspace, as the page uses them.

WorkspaceMode == {"Global", "OutputBound"}

WorkspaceLayout == {"Vertical", "Horizontal"}

WorkspaceThumbnailPlacement == {"Top", "Bottom", "Left", "Right"}

WorkspaceConfig ==
    [workspace_mode : WorkspaceMode,
     workspace_layout : WorkspaceLayout,
     workspace_thumbnail_placement : WorkspaceThumbnailPlacement]

\* `placement as usize`: the discriminant of a fieldless enum is its position
\* in the declaration Top | Bottom | Left | Right.
Ordinal(p) ==
    CASE p = "Top" -> 0
      [] p = "Bottom" -> 1
      [] p = "Left" -> 2
      [] p = "Right" -> 3

\* WorkspaceConfig::default(): one fixed record; the page does not say which.
WorkspaceConfigDefault == CHOOSE c \in WorkspaceConfig : TRUE

---------------------------------------------------------------------------
\* The configuration stores.

CompNamespace == "com.system76.CosmicComp"

SettingsNamespace == "com.system76.CosmicWorkspaces"

\* What a key of a namespace holds: nothing ({}) or one value ({v}).
Stored(values) == {{}} \cup {{v} : v \in values}

\* The ways one get() call ends.
ReadOutcome == {"Ok", "NoConfigDirectory", "Other"}

ReadKeys == {"workspaces", "show_workspace_name", "show_workspace_number"}

\* A get() can succeed only on a key that holds a value, and reports a
\* missing configuration directory only when there is none.
ReadPossible(held, outcome) ==
    /\ outcome = "Ok" => held # {}
    /\ outcome = "NoConfigDirectory" => held = {}

\* config.get(key).unwrap_or_else(|err| { ...; default })
GetOrDefault(held, outcome, default) ==
    IF outcome = "Ok" THEN CHOOSE v \in held : TRUE ELSE default

\* The closures without the matches!(err, NoConfigDirectory) test.
ReadErrorLog_every_error(outcomes) ==
    {[op |-> "get", key |-> k] : k \in {j \in ReadKeys : outcomes[j] # "Ok"}}

\* The error!() lines of the three unwrap_or_else closures.
ReadErrorLog(outcomes) ==
    {[op |-> "get", key |-> k] :
        k \in {j \in ReadKeys : outcomes[j] \notin {"Ok", "NoConfigDirectory"}}}

\* Config::set(key, value): the namespace afterwards; a failed write leaves
\* the namespace as it was.
ConfigSet(store, key, value, ok) ==
    IF ok THEN [store EXCEPT ![key] = {value}] ELSE store

\* One recorded call of Config::set.
WriteCall(namespace, key, value, ok) ==
    [namespace |-> namespace, key |-> key, value |-> value, ok |-> ok]

\* if let Err(err) = ...set(key, ..) { error!(?err, "Failed to set config 'key'") }
WriteErrorLog(key, ok) ==
    IF ok THEN {} ELSE {[op |-> "set", key |-> key]}

---------------------------------------------------------------------------
\* The derived parts of the page.

\* The fl!("workspaces-orientation", ..) labels of the placement dropdown.
PlacementOptions(layout) ==
    IF layout = "Horizontal" THEN <<"top", "bottom">> ELSE <<"left", "right">>

\* The two positions of the toggle exchanged.
LayoutPosition_swapped(layout) ==
    IF layout = "Vertical" THEN 1 ELSE 0

\* The position activate_position() is given for a layout.
LayoutPosition(layout) ==
    IF layout = "Vertical" THEN 0 ELSE 1

\* The entities a SetWorkspaceLayout message can carry: the two the model was
\* built with, and one the model holds no data for.
Entity == {"vertical_entity", "horizontal_entity", "other_entity"}

\* workspace_layout_model.data::<WorkspaceLayout>(entity)
\*     .unwrap_or(&WorkspaceLayout::Vertical)
LayoutOfEntity(entity) ==
    CASE entity = "vertical_entity" -> "Vertical"
      [] entity = "horizontal_entity" -> "Horizontal"
      [] OTHER -> "Vertical"

\* The match of SetWorkspaceThumbnailPlacement on (workspace_layout, value).
PlacementOf(layout, value) ==
    IF layout = "Horizontal"
    THEN (IF value = 0 THEN "Left" ELSE "Right")
    ELSE (IF value = 0 THEN "Top" ELSE "Bottom")

\* The selection index taken from the discriminant without the `% 2`.
InitialSelected_no_modulo(placement) == Ordinal(placement)

\* comp_workspace_config.workspace_thumbnail_placement as usize % 2
InitialSelected(placement) == Ordinal(placement) % 2

---------------------------------------------------------------------------
VARIABLES
    comp_config,              \* namespace com.system76.CosmicComp: key -> held
    config,                   \* namespace com.system76.CosmicWorkspaces
    comp_workspace_config,    \* Page.comp_workspace_config
    show_workspace_name,      \* Page.show_workspace_name
    show_workspace_number,    \* Page.show_workspace_number
    show_trackpad_gesture,    \* Page.show_trackpad_gesture
    workspace_thumbnail_placement_options,
    workspace_layout_model,   \* active position of the layout toggle
    selected_workspace_thumbnail_placement,
    last_op,                  \* the operation that produced this state
    before,                   \* the page as that operation found it
    write_calls,              \* the Config::set calls that operation made
    error_log                 \* the error!() lines that operation logged

vars ==
    <<comp_config, config, comp_workspace_config, show_workspace_name,
      show_workspace_number, show_trackpad_gesture,
      workspace_thumbnail_placement_options, workspace_layout_model,
      selected_workspace_thumbnail_placement, last_op, before, write_calls,
      error_log>>

\* The fields of the Page struct (the two Config handles aside).
PageState ==
    [comp_workspace_config |-> comp_workspace_config,
     show_workspace_name |-> show_workspace_name,
     show_workspace_number |-> show_workspace_number,
     show_trackpad_gesture |-> show_trackpad_gesture,
     workspace_thumbnail_placement_options |->
         workspace_thumbnail_placement_options,
     workspace_layout_model |-> workspace_layout_model,
     selected_workspace_thumbnail_placement |->
         selected_workspace_thumbnail_placement]

---------------------------------------------------------------------------
\* Default for Page: the page built from what the two namespaces hold and
\* from how each of the three reads ends.
Default(comp_held, name_held, number_held, outcomes) ==
    /\ comp_config = [workspaces |-> comp_held]
    /\ config = [show_workspace_name |-> name_held,
                 show_workspace_number |-> number_held]
    /\ comp_workspace_config =
           GetOrDefault(comp_held, outcomes["workspaces"],
                        WorkspaceConfigDefault)
    /\ show_workspace_name =
           GetOrDefault(name_held, outcomes["show_workspace_name"], FALSE)
    /\ show_workspace_number =
           GetOrDefault(number_held, outcomes["show_workspace_number"], FALSE)
    /\ workspace_thumbnail_placement_options =
           PlacementOptions(comp_workspace_config.workspace_layout)
    /\ workspace_layout_model =
           LayoutPosition(comp_workspace_config.workspace_layout)
    /\ selected_workspace_thumbnail_placement =
           InitialSelected(comp_workspace_config.workspace_thumbnail_placement)
    /\ show_trackpad_gesture = FALSE
    /\ last_op = [kind |-> "Default", outcomes |-> outcomes]
    /\ before = PageState
    /\ write_calls = << >>
    /\ error_log = ReadErrorLog(outcomes)

Init ==
    \E comp_held \in Stored(WorkspaceConfig),
       name_held \in Stored(BOOLEAN),
       number_held \in Stored(BOOLEAN),
       outcomes \in [ReadKeys -> ReadOutcome] :
        /\ ReadPossible(comp_held, outcomes["workspaces"])
        /\ ReadPossible(name_held, outcomes["show_workspace_name"])
        /\ ReadPossible(number_held, outcomes["show_workspace_number"])
        /\ Default(comp_held, name_held, number_held, outcomes)

---------------------------------------------------------------------------
\* Page::update, one action per Message variant.  `ok` is whether the
\* Config::set call of the handler succeeds.

\* What every handler leaves behind about itself: the message it handled
\* (its payload under a field named after the payload's type) and the page
\* it found.
Record(message) ==
    /\ last_op' = message
    /\ before' = PageState

\* save_comp_config writing the record as the handler found it, as when the
\* call comes before the assignment.
save_comp_config_before_assignment(ok) ==
    /\ comp_config' =
           ConfigSet(comp_config, "workspaces", comp_workspace_config, ok)
    /\ write_calls' =
           <<WriteCall(CompNamespace, "workspaces", comp_workspace_config, ok)>>
    /\ error_log' = WriteErrorLog("workspaces", ok)
    /\ UNCHANGED config

\* Page::save_comp_config, called with the page as the handler has left it.
save_comp_config(ok) ==
    /\ comp_config' =
           ConfigSet(comp_config, "workspaces", comp_workspace_config', ok)
    /\ write_calls' =
           <<WriteCall(CompNamespace, "workspaces", comp_workspace_config', ok)>>
    /\ error_log' = WriteErrorLog("workspaces", ok)
    /\ UNCHANGED config

SetWorkspaceMode(value, ok) ==
    /\ comp_workspace_config' =
           [comp_workspace_config EXCEPT !.workspace_mode = value]
    /\ save_comp_config(ok)
    /\ UNCHANGED <<show_workspace_name, show_workspace_number,
                   show_trackpad_gesture,
                   workspace_thumbnail_placement_options,
                   workspace_layout_model,
                   selected_workspace_thumbnail_placement>>
    /\ Record([kind |-> "SetWorkspaceMode", mode |-> value])

\* SetWorkspaceLayout without the recomputation of the option list.
SetWorkspaceLayout_stale_options(value, ok) ==
    /\ comp_workspace_config' =
           [comp_workspace_config EXCEPT
               !.workspace_layout = LayoutOfEntity(value)]
    /\ workspace_layout_model' =
           LayoutPosition(comp_workspace_config'.workspace_layout)
    /\ save_comp_config(ok)
    /\ UNCHANGED <<show_workspace_name, show_workspace_number,
                   show_trackpad_gesture,
                   workspace_thumbnail_placement_options,
                   selected_workspace_thumbnail_placement>>
    /\ Record([kind |-> "SetWorkspaceLayout", entity |-> value])

SetWorkspaceLayout(value, ok) ==
    /\ comp_workspace_config' =
           [comp_workspace_config EXCEPT
               !.workspace_layout = LayoutOfEntity(value)]
    /\ workspace_layout_model' =
           LayoutPosition(comp_workspace_config'.workspace_layout)
    /\ workspace_thumbnail_placement_options' =
           PlacementOptions(comp_workspace_config'.workspace_layout)
    /\ save_comp_config(ok)
    /\ UNCHANGED <<show_workspace_name, show_workspace_number,
                   show_trackpad_gesture,
                   selected_workspace_thumbnail_placement>>
    /\ Record([kind |-> "SetWorkspaceLayout", entity |-> value])

\* SetWorkspaceThumbnailPlacement with its "TODO apply the setting" done the
\* way the two handlers above it do: self.save_comp_config().
SetWorkspaceThumbnailPlacement_persisted(value) ==
    \E ok \in BOOLEAN :
        /\ comp_workspace_config' =
               [comp_workspace_config EXCEPT
                   !.workspace_thumbnail_placement =
                       PlacementOf(comp_workspace_config.workspace_layout,
                                   value)]
        /\ selected_workspace_thumbnail_placement' = value
        /\ save_comp_config(ok)
        /\ UNCHANGED <<show_workspace_name, show_workspace_number,
                       show_trackpad_gesture,
                       workspace_thumbnail_placement_options,
                       workspace_layout_model>>
        /\ Record([kind |-> "SetWorkspaceThumbnailPlacement", index |-> value])

\* No Config::set call: the one in the handler's body is commented out.
SetWorkspaceThumbnailPlacement(value) ==
    /\ comp_workspace_config' =
           [comp_workspace_config EXCEPT
               !.workspace_thumbnail_placement =
                   PlacementOf(comp_workspace_config.workspace_layout, value)]
    /\ selected_workspace_thumbnail_placement' = value
    /\ write_calls' = << >>
    /\ error_log' = {}
    /\ UNCHANGED <<comp_config, config, show_workspace_name,
                   show_workspace_number, show_trackpad_gesture,
                   workspace_thumbnail_placement_options,
                   workspace_layout_model>>
    /\ Record([kind |-> "SetWorkspaceThumbnailPlacement", index |-> value])

\* SetShowName that keeps the new flag only when the write went through.
SetShowName_rollback(value, ok) ==
    /\ show_workspace_name' = IF ok THEN value ELSE show_workspace_name
    /\ config' = ConfigSet(config, "show_workspace_name", value, ok)
    /\ write_calls' =
           <<WriteCall(SettingsNamespace, "show_workspace_name", value, ok)>>
    /\ error_log' = WriteErrorLog("show_workspace_name", ok)
    /\ UNCHANGED <<comp_config, comp_workspace_config, show_workspace_number,
                   show_trackpad_gesture,
                   workspace_thumbnail_placement_options,
                   workspace_layout_model,
                   selected_workspace_thumbnail_placement>>
    /\ Record([kind |-> "SetShowName", flag |-> value])

SetShowName(value, ok) ==
    /\ show_workspace_name' = value
    /\ config' = ConfigSet(config, "show_workspace_name", value, ok)
    /\ write_calls' =
           <<WriteCall(SettingsNamespace, "show_workspace_name", value, ok)>>
    /\ error_log' = WriteErrorLog("show_workspace_name", ok)
    /\ UNCHANGED <<comp_config, comp_workspace_config, show_workspace_number,
                   show_trackpad_gesture,
                   workspace_thumbnail_placement_options,
                   workspace_layout_model,
                   selected_workspace_thumbnail_placement>>
    /\ Record([kind |-> "SetShowName", flag |-> value])

\* SetShowNumber writing under SetShowName's key.
SetShowNumber_name_key(value, ok) ==
    /\ show_workspace_number' = value
    /\ config' = ConfigSet(config, "show_workspace_name", value, ok)
    /\ write_calls' =
           <<WriteCall(SettingsNamespace, "show_workspace_name", value, ok)>>
    /\ error_log' = WriteErrorLog("show_workspace_name", ok)
    /\ UNCHANGED <<comp_config, comp_workspace_config, show_workspace_name,
                   show_trackpad_gesture,
                   workspace_thumbnail_placement_options,
                   workspace_layout_model,
                   selected_workspace_thumbnail_placement>>
    /\ Record([kind |-> "SetShowNumber", flag |-> value])

SetShowNumber(value, ok) ==
    /\ show_workspace_number' = value
    /\ config' = ConfigSet(config, "show_workspace_number", value, ok)
    /\ write_calls' =
           <<WriteCall(SettingsNamespace, "show_workspace_number", value, ok)>>
    /\ error_log' = WriteErrorLog("show_workspace_number", ok)
    /\ UNCHANGED <<comp_config, comp_workspace_config, show_workspace_name,
                   show_trackpad_gesture,
                   workspace_thumbnail_placement_options,
                   workspace_layout_model,
                   selected_workspace_thumbnail_placement>>
    /\ Record([kind |-> "SetShowNumber", flag |-> value])

\* ShowTrackpadGestureInfo that also resets the dropdown's selection.
ShowTrackpadGestureInfo_resets_selection(value) ==
    /\ show_trackpad_gesture' = value
    /\ selected_workspace_thumbnail_placement' = 0
    /\ write_calls' = << >>
    /\ error_log' = {}
    /\ UNCHANGED <<comp_config, config, comp_workspace_config,
                   show_workspace_name, show_workspace_number,
                   workspace_thumbnail_placement_options,
                   workspace_layout_model>>
    /\ Record([kind |-> "ShowTrackpadGestureInfo", flag |-> value])

ShowTrackpadGestureInfo(value) ==
    /\ show_trackpad_gesture' = value
    /\ write_calls' = << >>
    /\ error_log' = {}
    /\ UNCHANGED <<comp_config, config, comp_workspace_config,
                   show_workspace_name, show_workspace_number,
                   workspace_thumbnail_placement_options,
                   workspace_layout_model,
                   selected_workspace_thumbnail_placement>>
    /\ Record([kind |-> "ShowTrackpadGestureInfo", flag |-> value])

Next ==
    \/ \E value \in WorkspaceMode, ok \in BOOLEAN : SetWorkspaceMode(value, ok)
    \/ \E value \in Entity, ok \in BOOLEAN : SetWorkspaceLayout(value, ok)
    \/ \E value \in 0..MaxIndex : SetWorkspaceThumbnailPlacement(value)
    \/ \E value \in BOOLEAN, ok \in BOOLEAN : SetShowName(value, ok)
    \/ \E value \in BOOLEAN, ok \in BOOLEAN : SetShowNumber(value, ok)
    \/ \E value \in BOOLEAN : ShowTrackpadGestureInfo(value)

Spec == Init /\ [][Next]_vars

---------------------------------------------------------------------------
\* The construction restricted to a loaded placement that is valid for the
\* loaded layout.

\* The two placements the specification allows for a layout.
ValidSet(layout) ==
    IF layout = "Horizontal" THEN {"Top", "Bottom"} ELSE {"Left", "Right"}

\* The specification's layout -> placement table.
TablePlacement(layout, index) ==
    CASE layout = "Horizontal" /\ index = 0 -> "Top"
      [] layout = "Horizontal" /\ index = 1 -> "Bottom"
      [] layout = "Vertical" /\ index = 0 -> "Left"
      [] layout = "Vertical" /\ index = 1 -> "Right"

InitValidLoad ==
    /\ Init
    /\ comp_workspace_config.workspace_thumbnail_placement
           \in ValidSet(comp_workspace_config.workspace_layout)

SpecValidLoad == InitValidLoad /\ [][Next]_vars

---------------------------------------------------------------------------
\* C1: after update(SetWorkspaceThumbnailPlacement(i)), i in {0,1}, applied
\* while the cached layout is L, the cached placement is the table's value
\* (Horizontal+0 -> Top, Horizontal+1 -> Bottom, Vertical+0 -> Left,
\* Vertical+1 -> Right) and belongs to valid_set(L).
C1_PlacementFollowsTable ==
    (last_op.kind = "SetWorkspaceThumbnailPlacement" /\ last_op.index \in {0, 1})
        => /\ comp_workspace_config.workspace_thumbnail_placement =
                  TablePlacement(before.comp_workspace_config.workspace_layout,
                                 last_op.index)
           /\ comp_workspace_config.workspace_thumbnail_placement
                  \in ValidSet(before.comp_workspace_config.workspace_layout)

\* C2: from a construction whose loaded placement is valid for the loaded
\* layout, after any sequence of update messages the cached placement is one
\* of the two values valid for the cached layout.
C2_PlacementValidForLayout ==
    comp_workspace_config.workspace_thumbnail_placement
        \in ValidSet(comp_workspace_config.workspace_layout)

\* C3: SetWorkspaceMode and SetWorkspaceLayout issue exactly one write, of the
\* aggregate record carrying the new value, under "workspaces" in the
\* compositor namespace; SetShowName and SetShowNumber issue exactly one
\* write, of the new flag, under "show_workspace_name" and
\* "show_workspace_number" in the settings-app namespace.
C3_OneWritePerMutatingMessage ==
    /\ last_op.kind \in {"SetWorkspaceMode", "SetWorkspaceLayout"}
           => /\ Len(write_calls) = 1
              /\ write_calls[1].namespace = "com.system76.CosmicComp"
              /\ write_calls[1].key = "workspaces"
              /\ write_calls[1].value = comp_workspace_config
    /\ last_op.kind = "SetWorkspaceMode"
           => write_calls[1].value.workspace_mode = last_op.mode
    /\ (last_op.kind = "SetWorkspaceLayout"
            /\ last_op.entity = "horizontal_entity")
           => write_calls[1].value.workspace_layout = "Horizontal"
    /\ (last_op.kind = "SetWorkspaceLayout"
            /\ last_op.entity # "horizontal_entity")
           => write_calls[1].value.workspace_layout = "Vertical"
    /\ last_op.kind = "SetShowName"
           => write_calls =
                  <<[namespace |-> "com.system76.CosmicWorkspaces",
                     key |-> "show_workspace_name",
                     value |-> last_op.flag,
                     ok |-> write_calls[1].ok]>>
    /\ last_op.kind = "SetShowNumber"
           => write_calls =
                  <<[namespace |-> "com.system76.CosmicWorkspaces",
                     key |-> "show_workspace_number",
                     value |-> last_op.flag,
                     ok |-> write_calls[1].ok]>>

\* C3's case: a SetWorkspaceLayout(Horizontal) that changed the layout and
\* whose one write went through.
C3_Witness ==
    /\ last_op.kind = "SetWorkspaceLayout"
    /\ last_op.entity = "horizontal_entity"
    /\ before.comp_workspace_config.workspace_layout = "Vertical"
    /\ Len(write_calls) = 1
    /\ write_calls[1].ok
    /\ comp_config["workspaces"] = {comp_workspace_config}

\* C4: update(SetWorkspaceThumbnailPlacement(i)) sets the selection index and
\* issues no write: both namespaces hold afterwards what they held before.
C4_PlacementNotPersisted ==
    [][last_op'.kind = "SetWorkspaceThumbnailPlacement"
          => /\ selected_workspace_thumbnail_placement' = last_op'.index
             /\ write_calls' = << >>
             /\ comp_config' = comp_config
             /\ config' = config]_vars

\* C4's case: a SetWorkspaceThumbnailPlacement that changed the cached
\* placement, which the compositor namespace does not hold.
C4_Witness ==
    /\ last_op.kind = "SetWorkspaceThumbnailPlacement"
    /\ comp_workspace_config.workspace_thumbnail_placement #
           before.comp_workspace_config.workspace_thumbnail_placement
    /\ selected_workspace_thumbnail_placement #
           before.selected_workspace_thumbnail_placement
    /\ comp_config["workspaces"] # {comp_workspace_config}

\* C5: in every reachable state the placement-option list holds exactly the
\* two options of the cached layout, in order: [top, bottom] for Horizontal,
\* [left, right] for Vertical.
C5_OptionsMatchLayout ==
    /\ comp_workspace_config.workspace_layout = "Horizontal"
           => workspace_thumbnail_placement_options = <<"top", "bottom">>
    /\ comp_workspace_config.workspace_layout = "Vertical"
           => workspace_thumbnail_placement_options = <<"left", "right">>

\* C5's case: a SetWorkspaceLayout that switched from Vertical to Horizontal.
C5_Witness ==
    /\ last_op.kind = "SetWorkspaceLayout"
    /\ before.workspace_thumbnail_placement_options = <<"left", "right">>
    /\ comp_workspace_config.workspace_layout = "Horizontal"
    /\ workspace_thumbnail_placement_options = <<"top", "bottom">>

\* C6: from layout=Vertical, placement=Left, SetWorkspaceLayout(Horizontal)
\* yields the option list [top, bottom] and one write of an aggregate record
\* whose layout is Horizontal (persisted when the write goes through); a
\* SetWorkspaceThumbnailPlacement(1) sent next yields placement=Bottom and no
\* further write.
C6_EndToEnd ==
    [][/\ (/\ comp_workspace_config.workspace_layout = "Vertical"
           /\ comp_workspace_config.workspace_thumbnail_placement = "Left"
           /\ last_op'.kind = "SetWorkspaceLayout"
           /\ last_op'.entity = "horizontal_entity")
          => /\ workspace_thumbnail_placement_options' = <<"top", "bottom">>
             /\ Len(write_calls') = 1
             /\ write_calls'[1].key = "workspaces"
             /\ write_calls'[1].value.workspace_layout = "Horizontal"
             /\ write_calls'[1].ok
                    => \A c \in comp_config'["workspaces"] :
                           c.workspace_layout = "Horizontal"
       /\ (/\ last_op.kind = "SetWorkspaceLayout"
           /\ last_op.entity = "horizontal_entity"
           /\ before.comp_workspace_config.workspace_layout = "Vertical"
           /\ before.comp_workspace_config.workspace_thumbnail_placement
                  = "Left"
           /\ last_op'.kind = "SetWorkspaceThumbnailPlacement"
           /\ last_op'.index = 1)
          => /\ comp_workspace_config'.workspace_thumbnail_placement
                    = "Bottom"
             /\ write_calls' = << >>
             /\ comp_config' = comp_config
             /\ config' = config]_vars

\* The last operation made a write and the write failed.
WriteFailed == write_calls # << >> /\ ~write_calls[1].ok

\* C7: when the write of SetWorkspaceMode, SetWorkspaceLayout, SetShowName or
\* SetShowNumber fails, the in-memory field still has the new value, both
\* namespaces hold what they held, exactly one write was attempted, and the
\* page accepts further messages.
C7_FailedWriteKeepsMutation ==
    /\ [][(write_calls' # << >> /\ ~write_calls'[1].ok)
             => /\ Len(write_calls') = 1
                /\ comp_config' = comp_config
                /\ config' = config
                /\ last_op'.kind \in {"SetWorkspaceMode", "SetWorkspaceLayout",
                                      "SetShowName", "SetShowNumber"}
                /\ last_op'.kind = "SetWorkspaceMode"
                       => comp_workspace_config'.workspace_mode = last_op'.mode
                /\ last_op'.kind = "SetWorkspaceLayout"
                       => comp_workspace_config'.workspace_layout =
                              IF last_op'.entity = "horizontal_entity"
                              THEN "Horizontal" ELSE "Vertical"
                /\ last_op'.kind = "SetShowName"
                       => show_workspace_name' = last_op'.flag
                /\ last_op'.kind = "SetShowNumber"
                       => show_workspace_number' = last_op'.flag]_vars
    /\ [](WriteFailed => ENABLED Next)

\* C7's case: a SetShowName whose write failed, leaving the cached flag
\* changed and different from the persisted one.
C7_Witness ==
    /\ last_op.kind = "SetShowName"
    /\ WriteFailed
    /\ show_workspace_name = last_op.flag
    /\ show_workspace_name # before.show_workspace_name
    /\ config["show_workspace_name"] = {before.show_workspace_name}

\* C8: update(ShowTrackpadGestureInfo(b)) sets show_trackpad_gesture to b,
\* leaves every other page field and both namespaces unchanged and issues no
\* write; when it follows a toggle and is itself a toggle (each carrying the
\* negation of the flag it found), the page is again the page before the
\* first toggle.
C8_GestureFlagOnly ==
    [][last_op'.kind = "ShowTrackpadGestureInfo"
          => /\ show_trackpad_gesture' = last_op'.flag
             /\ PageState' =
                    [PageState EXCEPT !.show_trackpad_gesture = last_op'.flag]
             /\ write_calls' = << >>
             /\ comp_config' = comp_config
             /\ config' = config
             /\ (/\ last_op.kind = "ShowTrackpadGestureInfo"
                 /\ last_op.flag = ~before.show_trackpad_gesture
                 /\ last_op'.flag = ~show_trackpad_gesture)
                    => PageState' = before]_vars

\* C8's case: a toggle that found the flag set by an earlier toggle and
\* cleared it again, on a page whose other fields have been changed.
C8_Witness ==
    /\ last_op.kind = "ShowTrackpadGestureInfo"
    /\ last_op.flag = FALSE
    /\ before.show_trackpad_gesture = TRUE
    /\ show_trackpad_gesture = FALSE
    /\ show_workspace_name = TRUE
    /\ comp_config["workspaces"] # {comp_workspace_config}

\* C9: at construction the selection index is ordinal(P) mod 2, hence 0 or 1,
\* for every loaded placement P and whatever the loaded layout.
C9_InitialIndexIsOrdinalParity ==
    last_op.kind = "Default"
        => /\ selected_workspace_thumbnail_placement \in {0, 1}
           /\ comp_workspace_config.workspace_thumbnail_placement
                  \in {"Top", "Left"}
                  => selected_workspace_thumbnail_placement = 0
           /\ comp_workspace_config.workspace_thumbnail_placement
                  \in {"Bottom", "Right"}
                  => selected_workspace_thumbnail_placement = 1

\* C9's case: a construction from a persisted (P, L) for which the table's
\* placement(L, index) is not P.
C9_Witness ==
    /\ last_op.kind = "Default"
    /\ last_op.outcomes["workspaces"] = "Ok"
    /\ comp_config["workspaces"] = {comp_workspace_config}
    /\ TablePlacement(comp_workspace_config.workspace_layout,
                      selected_workspace_thumbnail_placement)
           # comp_workspace_config.workspace_thumbnail_placement

\* C10: at construction each of the three reads falls back to its default on
\* an error and yields the persisted value on success, independently of the
\* other two; an error is logged for a key exactly when its read failed with
\* something other than NoConfigDirectory; show_trackpad_gesture is false.
C10_ReadFallback ==
    last_op.kind = "Default"
        => /\ last_op.outcomes["workspaces"] = "Ok"
                  => comp_config["workspaces"] = {comp_workspace_config}
           /\ last_op.outcomes["workspaces"] # "Ok"
                  => comp_workspace_config = WorkspaceConfigDefault
           /\ last_op.outcomes["show_workspace_name"] = "Ok"
                  => config["show_workspace_name"] = {show_workspace_name}
           /\ last_op.outcomes["show_workspace_name"] # "Ok"
                  => show_workspace_name = FALSE
           /\ last_op.outcomes["show_workspace_number"] = "Ok"
                  => config["show_workspace_number"] = {show_workspace_number}
           /\ last_op.outcomes["show_workspace_number"] # "Ok"
                  => show_workspace_number = FALSE
           /\ \A k \in {"workspaces", "show_workspace_name",
                        "show_workspace_number"} :
                  ([op |-> "get", key |-> k] \in error_log)
                      <=> (last_op.outcomes[k] \notin {"Ok", "NoConfigDirectory"})
           /\ show_trackpad_gesture = FALSE
           /\ ENABLED Next

\* C10's case: a construction in which one read succeeded with a non-default
\* value, one failed for want of a configuration directory and one failed
\* otherwise.
C10_Witness ==
    /\ last_op.kind = "Default"
    /\ last_op.outcomes["workspaces"] = "NoConfigDirectory"
    /\ last_op.outcomes["show_workspace_name"] = "Other"
    /\ last_op.outcomes["show_workspace_number"] = "Ok"
    /\ show_workspace_number = TRUE
    /\ config["show_workspace_name"] = {TRUE}
    /\ error_log = {[op |-> "get", key |-> "show_workspace_name"]}

\* C11: in every reachable state the layout toggle's active position mirrors
\* the cached layout, 0 iff Vertical and 1 iff Horizontal; a
\* SetWorkspaceLayout whose entity has no layout data leaves the layout
\* Vertical and the active position 0.
C11_TogglePositionMirrorsLayout ==
    /\ workspace_layout_model \in {0, 1}
    /\ workspace_layout_model = 0
           <=> comp_workspace_config.workspace_layout = "Vertical"
    /\ workspace_layout_model = 1
           <=> comp_workspace_config.workspace_layout = "Horizontal"
    /\ (last_op.kind = "SetWorkspaceLayout" /\ last_op.entity = "other_entity")
           => /\ comp_workspace_config.workspace_layout = "Vertical"
              /\ workspace_layout_model = 0

\* C11's case: a SetWorkspaceLayout with an entity that has no layout data,
\* on a page whose layout was Horizontal and whose toggle stood at 1.
C11_Witness ==
    /\ last_op.kind = "SetWorkspaceLayout"
    /\ last_op.entity = "other_entity"
    /\ before.comp_workspace_config.workspace_layout = "Horizontal"
    /\ before.workspace_layout_model = 1
    /\ comp_workspace_config.workspace_layout = "Vertical"
    /\ workspace_layout_model = 0

\* C12: a SetWorkspaceMode or SetWorkspaceLayout whose write succeeds leaves
\* under "workspaces" exactly the cached WorkspaceConfig, all three fields:
\* the new mode or layout together with the cached values the message does
\* not touch, whatever the namespace held before (a placement set by
\* SetWorkspaceThumbnailPlacement, a mode or layout whose own write failed).
C12_AggregateWriteCarriesWholeConfig ==
    [][(/\ last_op'.kind \in {"SetWorkspaceMode", "SetWorkspaceLayout"}
        /\ write_calls' # << >>
        /\ write_calls'[1].ok)
          => /\ comp_config'["workspaces"] = {comp_workspace_config'}
             /\ comp_workspace_config'.workspace_thumbnail_placement =
                    comp_workspace_config.workspace_thumbnail_placement
             /\ last_op'.kind = "SetWorkspaceMode"
                    => /\ comp_workspace_config'.workspace_mode = last_op'.mode
                       /\ comp_workspace_config'.workspace_layout =
                              comp_workspace_config.workspace_layout
             /\ last_op'.kind = "SetWorkspaceLayout"
                    => comp_workspace_config'.workspace_mode =
                           comp_workspace_config.workspace_mode]_vars

\* C12's case: a successful SetWorkspaceMode that changed the mode, after
\* which the namespace holds the whole cached record.
C12_Witness ==
    /\ last_op.kind = "SetWorkspaceMode"
    /\ write_calls # << >>
    /\ write_calls[1].ok
    /\ before.comp_workspace_config.workspace_mode # last_op.mode
    /\ comp_workspace_config.workspace_layout = "Horizontal"
    /\ comp_workspace_config.workspace_thumbnail_placement = "Right"
    /\ comp_config["workspaces"] = {comp_workspace_config}

====
